---- MODULE Spec2Model ----
(***************************************************************************)
(* A model of bot.py: the DART capital-increase alert pipeline.            *)
(*                                                                         *)
(* Text is modelled as a sequence of tokens (a token is a run of           *)
(* characters that the regular expressions of bot.py never split), the     *)
(* regular expressions as sets of alternatives, each a sequence of tokens  *)
(* and of the marker WS for "\s*".  Korean tokens are written romanised:   *)
(* yu, mu, sangjeungja (the parts of "yu-mu-sangjeungja", paid-in and      *)
(* bonus capital increase), gyeoljeong (decision), je 3 ja baejeong        *)
(* (third-party allocation), ilban juju baejeong (general shareholder      *)
(* allocation), gu juju cheongyak (existing-shareholder subscription).     *)
(*                                                                         *)
(* Filing IDs (rcept_no) are numbers: 0 is the empty ID, 1..MaxFilings are *)
(* the filings the server lists, Old(i) are IDs of older filings that      *)
(* state.json still holds.  state.json is a record: its kind (what         *)
(* json.load makes of the file) and, for an object with a "seen" list,     *)
(* that list.  A seen list is kept run-length encoded: a sequence of runs  *)
(* <<lo, hi>>, each standing for the consecutive IDs lo, lo+1, .., hi in   *)
(* that order, so that a list of SEEN_MAX entries stays small; a single ID *)
(* x is the run <<x, x>>.  An entry of a hand-edited list that is no       *)
(* string is a negative number: JSON_SCALAR for a number, true, false or   *)
(* null, JSON_NESTED for a list or an object.                              *)
(***************************************************************************)
EXTENDS Integers, Sequences, FiniteSets, TLC

\* ------------------------------------------------------------------ bounds
\* the number of filings the server lists
MaxFilings == 2
\* the page cap, os.getenv("MAX_PAGES", "12")
MAX_PAGES == 3

\* ------------------------------------------------------------ configuration
SEEN_MAX == 8000
MARKET_CLASSES == {"Y", "K", "N"}

PAGE_COUNT == 100

\* -------------------------------------------------------------------- text
WS == "\\s*"

IsSpace(t) == t \in {" ", "\n"}

RECURSIVE MatchAt(_, _, _, _)
\* re.match of the alternative pat (from its j-th element) at position i of s
MatchAt(s, i, pat, j) ==
    IF j > Len(pat) THEN TRUE
    ELSE IF pat[j] = WS
         THEN MatchAt(s, i, pat, j + 1)
              \/ (i <= Len(s) /\ IsSpace(s[i]) /\ MatchAt(s, i + 1, pat, j))
         ELSE i <= Len(s) /\ s[i] = pat[j] /\ MatchAt(s, i + 1, pat, j + 1)

\* pattern.search(s)
Search(re, s) == \E pat \in re : \E i \in 1..(Len(s) + 1) : MatchAt(s, i, pat, 1)

INC_REPORT ==
    { <<"yu", "sangjeungja", WS, "gyeoljeong">>, <<"yu", "sangjeungja", "gyeoljeong">>,
      <<"mu", "sangjeungja", WS, "gyeoljeong">>, <<"mu", "sangjeungja", "gyeoljeong">>,
      <<"yu", "mu", "sangjeungja", WS, "gyeoljeong">>, <<"yu", "mu", "sangjeungja", "gyeoljeong">> }

EXC_3RD ==
    { <<"je", WS, "3", WS, "ja", WS, "baejeong">>, <<"je", "3", "ja", "baejeong">> }

ALLOW_GENERAL ==
    { <<"ilban", WS, "juju", WS, "baejeong">>, <<"ilban", "juju", "baejeong">> }

ALLOW_SHAREHOLDER ==
    { <<"juju", WS, "baejeong">>, <<"juju", "baejeong">>,
      <<"gu", "juju", WS, "cheongyak">>, <<"gu", "juju", "cheongyak">>, <<"gu", "juju">> }

RECURSIVE LStrip(_)
LStrip(s) == IF s # <<>> /\ IsSpace(Head(s)) THEN LStrip(Tail(s)) ELSE s

RECURSIVE RStrip(_)
RStrip(s) ==
    IF s # <<>> /\ IsSpace(s[Len(s)]) THEN RStrip(SubSeq(s, 1, Len(s) - 1)) ELSE s

\* str.strip()
Strip(s) == RStrip(LStrip(s))

market_ok(corp_cls) ==
    IF MARKET_CLASSES = {} THEN TRUE ELSE corp_cls \in MARKET_CLASSES

classify_allocation(doc_text) ==
    IF Search(ALLOW_GENERAL, doc_text) THEN "ilban-juju-baejeong"
    ELSE IF Search(ALLOW_SHAREHOLDER, doc_text) THEN "juju-baejeong"
    ELSE "N/A"

\* --------------------------------------------------- event type and risk
\* what classify_event_type returns: "yu-sang", "yu-mu-sang", "mu-sang", "N/A"
ET_PAID == <<"yu", "sang">>
ET_COMBINED == <<"yu", "mu", "sang">>
ET_BONUS == <<"mu", "sang">>
ET_NONE == <<"N/A">>

\* classify_event_type(report_nm): the three searches in the order of the code
classify_event_type(report_nm) ==
    IF Search({ <<"mu", "sangjeungja">> }, report_nm) THEN ET_BONUS
    ELSE IF Search({ <<"yu", "mu", "sangjeungja">> }, report_nm) THEN ET_COMBINED
    ELSE IF Search({ <<"yu", "sangjeungja">> }, report_nm) THEN ET_PAID
    ELSE ET_NONE

\* str.upper() of one token
UpperToken(t) ==
    CASE t = "n/a" -> "N/A"
      [] t = "kosdaq" -> "KOSDAQ"
      [] t = "konex" -> "KONEX"
      [] t = "kospi" -> "KOSPI"
      [] OTHER -> t

\* str.upper()
Upper(s) == [k \in 1..Len(s) |-> UpperToken(s[k])]

\* dict.get(k, default)
Get(fields, k, default) == IF k \in DOMAIN fields THEN fields[k] ELSE default

_is_empty_value(v) ==
    LET s == Strip(v)
    IN  \/ s = <<>>
        \/ Upper(s) = <<"N/A">>
        \/ s \in { <<"0">>, <<"0", "won">>, <<"0", " ", "ju">>, <<"0", "ju">> }

\* the keys of fields that risk_score reads
PURPOSE_KEY == "jageumjodaruimokjeok"
SCHEDULE_KEYS ==
    { "cheongyagil", "yejeongga", "hwakjeongil",
      "sinjuinsugwonsangjangyejeonggigan", "sinjuuisangjangyejeongil" }

\* the three patterns risk_score searches the purpose for
PURPOSE_DEBT == { <<"chaemu">>, <<"sanghwan">>, <<"chaip">>, <<"daechul">> }
PURPOSE_OPERATING == { <<"unyeong">>, <<"unjeonjageum">> }
PURPOSE_MNA == { <<"tabeobin">>, <<"M&A">>, <<"insu">>, <<"chwideuk">>, <<"tuja">> }

\* max(0, min(100, score))
Clamp(score) == IF score > 100 THEN 100 ELSE IF score < 0 THEN 0 ELSE score

\* the grade of a clamped score
Grade(score) ==
    IF score >= 80 THEN "nopeum"
    ELSE IF score >= 60 THEN "junggan"
    ELSE IF score >= 40 THEN "najeum"
    ELSE "maeunajeum"

\* the ratio points with the weights of the two top buckets exchanged
RatioPoints_exchanged(raise_krw, mcap_krw) ==
    IF raise_krw > 0 /\ mcap_krw > 0
    THEN IF 100 * raise_krw >= 50 * mcap_krw THEN 16
         ELSE IF 100 * raise_krw >= 30 * mcap_krw THEN 22
         ELSE IF 100 * raise_krw >= 15 * mcap_krw THEN 10
         ELSE IF 100 * raise_krw >= 5 * mcap_krw THEN 6
         ELSE 2
    ELSE 0

\* what the ratio of raise_krw to mcap_krw adds: raise_krw / mcap_krw >= 0.50
\* is 100 * raise_krw >= 50 * mcap_krw for the amounts of the model
RatioPoints(raise_krw, mcap_krw) ==
    IF raise_krw > 0 /\ mcap_krw > 0
    THEN IF 100 * raise_krw >= 50 * mcap_krw THEN 22
         ELSE IF 100 * raise_krw >= 30 * mcap_krw THEN 16
         ELSE IF 100 * raise_krw >= 15 * mcap_krw THEN 10
         ELSE IF 100 * raise_krw >= 5 * mcap_krw THEN 6
         ELSE 2
    ELSE 0

\* what major_part adds
MajorPoints(major_part) ==
    IF major_part = "bulcham" THEN 18
    ELSE IF major_part = "chamyeo" THEN 0 - 6
    ELSE 0

\* risk_score(...)[0:2]: the score and the grade (doc_text is not read);
\* discount_pct is <<>> for None and <<d>> for the number d
risk_score(ev_type, alloc, market, fields, raise_krw, mcap_krw, discount_pct, major_part) ==
    LET et == Strip(ev_type)
        mk == Upper(market)
        purpose == Get(fields, PURPOSE_KEY, <<>>)
        dated == { k \in SCHEDULE_KEYS : ~_is_empty_value(Get(fields, k, <<"N/A">>)) }
        score ==
            10
            + (IF et = ET_PAID THEN 38
               ELSE IF et = ET_COMBINED THEN 28
               ELSE IF et = ET_BONUS THEN 8
               ELSE 15)
            + (IF mk = <<"KOSDAQ">> THEN 10
               ELSE IF mk = <<"KONEX">> THEN 15
               ELSE IF mk = <<"KOSPI">> THEN 5
               ELSE 7)
            + (IF alloc = "juju-baejeong" THEN 8
               ELSE IF alloc = "ilban-juju-baejeong" THEN 6
               ELSE 0)
            + (IF Search(PURPOSE_DEBT, purpose) THEN 18 ELSE 0)
            + (IF Search(PURPOSE_OPERATING, purpose) THEN 10 ELSE 0)
            + (IF Search(PURPOSE_MNA, purpose) THEN 12 ELSE 0)
            + 4 * Cardinality(dated)
            + RatioPoints(raise_krw, mcap_krw)
            + (IF discount_pct = <<>> THEN 0
               ELSE IF discount_pct[1] >= 35 THEN 16
               ELSE IF discount_pct[1] >= 25 THEN 12
               ELSE IF discount_pct[1] >= 15 THEN 8
               ELSE IF discount_pct[1] >= 8 THEN 4
               ELSE 0)
            + MajorPoints(major_part)
    IN  [score |-> Clamp(score), grade |-> Grade(Clamp(score))]

\* ------------------------------------------------------------- state.json
\* load_state with its test of "seen" inverted: a list is reset, too
load_state_reset(f) == <<>>

\* load_state(): the "seen" list of the loaded state
load_state(f) == IF f.kind = "list" THEN f.seen ELSE <<>>

RECURSIVE ListLen(_)
\* len(seen)
ListLen(seen) ==
    IF seen = <<>> THEN 0 ELSE Head(seen)[2] - Head(seen)[1] + 1 + ListLen(Tail(seen))

RECURSIVE At(_, _)
\* seen[i-1]: the i-th entry, i in 1..len(seen)
At(seen, i) ==
    LET n == Head(seen)[2] - Head(seen)[1] + 1
    IN  IF i <= n THEN Head(seen)[1] + i - 1 ELSE At(Tail(seen), i - n)

RECURSIVE DropFirst(_, _)
\* seen[d:], 0 <= d <= len(seen)
DropFirst(seen, d) ==
    IF d = 0 THEN seen
    ELSE LET n == Head(seen)[2] - Head(seen)[1] + 1
         IN  IF d >= n THEN DropFirst(Tail(seen), d - n)
             ELSE <<(<<Head(seen)[1] + d, Head(seen)[2]>>)>> \o Tail(seen)

\* seen[-n:]
LastN(seen, n) ==
    IF ListLen(seen) > n THEN DropFirst(seen, ListLen(seen) - n) ELSE seen

\* save_state with the cut one entry late: seen[-(SEEN_MAX + 1):]
save_state_late(seen) == LastN(seen, SEEN_MAX + 1)

\* save_state(st): the list kept in st["seen"] and written to state.json
save_state(seen) == LastN(seen, SEEN_MAX)

\* entries of a "seen" list that are no strings: a number, true, false or null
JSON_SCALAR == 0 - 1
\* and a nested list or an object, which set() cannot hash
JSON_NESTED == 0 - 2

\* set(st.get("seen", [])) raises TypeError: the list holds an unhashable value
is_seen_raises(seen) ==
    \E k \in 1..Len(seen) : seen[k][1] <= JSON_NESTED /\ JSON_NESTED <= seen[k][2]

\* rcept_no in set(st.get("seen", [])), when set() returns
is_seen(seen, rcept_no) ==
    \E k \in 1..Len(seen) : seen[k][1] <= rcept_no /\ rcept_no <= seen[k][2]

\* st.setdefault("seen", []).append(rcept_no)
mark_seen(seen, rcept_no) == Append(seen, <<rcept_no, rcept_no>>)

\* ------------------------------------------------------------ list.json
\* sort key of fetch_list_pages: (rcept_dt, rcept_no)
KeyLess(a, b) ==
    \/ a.rcept_dt < b.rcept_dt
    \/ (a.rcept_dt = b.rcept_dt /\ a.rcept_no < b.rcept_no)

RECURSIVE Insert(_, _)
Insert(sorted, x) ==
    IF sorted = <<>> THEN <<x>>
    ELSE IF KeyLess(x, Head(sorted)) THEN <<x>> \o sorted
    ELSE <<Head(sorted)>> \o Insert(Tail(sorted), x)

RECURSIVE Sort(_)
\* list.sort(key=...): stable, ascending
Sort(lst) == IF lst = <<>> THEN <<>> ELSE Insert(Sort(SubSeq(lst, 1, Len(lst) - 1)), lst[Len(lst)])

RECURSIVE Dedup(_, _)
\* the rcept_no de-duplication loop: drops empty IDs and later duplicates
Dedup(lst, seenIds) ==
    IF lst = <<>> THEN <<>>
    ELSE IF Head(lst).rcept_no = 0 \/ Head(lst).rcept_no \in seenIds
         THEN Dedup(Tail(lst), seenIds)
         ELSE <<Head(lst)>> \o Dedup(Tail(lst), seenIds \cup {Head(lst).rcept_no})

\* what fetch_list_pages returns for the gathered records
DedupSort(lst) == Sort(Dedup(lst, {}))

\* ------------------------------------------------------------- the world
\* report_nm values of the listing
T_PAID == <<"yu", "sangjeungja", "gyeoljeong">>
T_REPORT == <<" ", "x", "(", "yu", "sangjeungja", " ", "gyeoljeong", ")", " ">>
T_COMBINED == <<"yu", "mu", "sangjeungja", "gyeoljeong">>
T_OTHER == <<"x", "gyeoljeong">>
T_3RD == <<"yu", "sangjeungja", "gyeoljeong", "(", "je", " ", "3", " ", "ja", " ", "baejeong", ")">>

\* document texts
D_SH == <<"x", "juju", "baejeong", "x">>
D_GEN == <<"ilban", " ", "juju", "\n", "baejeong">>
D_OLD == <<"gu", "juju", " ", "cheongyak">>
D_3RD_WS == <<"je", " ", "3", "ja", "\n", "baejeong", "juju", "baejeong">>
D_NONE == <<"x", "baejeong">>
D_EMPTY == <<>>

Filing(cls, nm, doc) == [corp_cls |-> cls, report_nm |-> nm, doc |-> doc]

\* the filings a run can meet: one per path through the loop body of main
Profiles ==
    { Filing("Y", T_PAID, D_SH), Filing("N", T_COMBINED, D_GEN),
      Filing("E", T_PAID, D_SH), Filing("Y", T_OTHER, D_SH),
      Filing("Y", T_3RD, D_OLD), Filing("K", T_REPORT, D_3RD_WS),
      Filing("K", T_PAID, D_NONE), Filing("Y", T_PAID, D_EMPTY) }

FilingIds == 1..MaxFilings

\* IDs of older filings, not listed any more
Old(i) == MaxFilings + i

\* n older IDs, oldest first
OldList(n) == IF n = 0 THEN <<>> ELSE <<(<<Old(1), Old(n)>>)>>

\* rcept_dt: filing 1 is the newest, the others share the day before
DateOf(id) == IF id = 1 THEN 2 ELSE 1

VARIABLES
    prof,      \* the listed filings: ID -> corp_cls, report_nm, document text
    file,      \* state.json
    st,        \* st["seen"] of the running main
    run,       \* which run of main this is: 1, then 2
    pc,        \* where main is: start, list, loop, done, aborted, store
    page,      \* fetch_list_pages: p     (the locals of fetch_list_pages are
    out,       \* fetch_list_pages: out    reset when the function returns)
    refused,   \* a page request of this run got a status other than 000, 013
    listed,    \* the non-empty IDs of the records the run gathered
    items,     \* main: items
    idx,       \* main: position of the for loop in items
    sent,      \* IDs tg_send delivered in this run
    fetched,   \* IDs fetch_document_text was called for in this run
    docfail,   \* IDs whose fetch_document_text raised in this run
    tgfail,    \* IDs whose tg_send raised in this run
    err,       \* the exception that ended the run: none, LIST, SEEN, TG
    st0,       \* st["seen"] as load_state returned it in this run
    file0,     \* state.json as the run found it
    prev,      \* the run before: its items, its error, the IDs it sent
    call       \* a call of a function on its own: its name, arguments, result

vars == <<prof, file, st, run, pc, page, out, refused, listed, items, idx,
          sent, fetched, docfail, tgfail, err, st0, file0, prev, call>>

\* what the loop of main leaves unchanged
fixed == <<prof, run, page, out, refused, listed, items, st0, file0, prev, call>>

\* one record of list.json
Rec(id) ==
    IF id = 0
    THEN [rcept_no |-> 0, rcept_dt |-> 1, corp_cls |-> "Y", report_nm |-> T_PAID]
    ELSE [rcept_no |-> id, rcept_dt |-> DateOf(id),
          corp_cls |-> prof[id].corp_cls, report_nm |-> prof[id].report_nm]

\* the listed filings, newest first, as list.json sorts them
Newest == [k \in 1..MaxFilings |-> MaxFilings + 1 - k]

\* a page of list.json: the listed filings, or these with a record that has
\* no rcept_no and one that comes twice
Pages ==
    { [k \in 1..Len(ids) |-> Rec(ids[k])] :
        ids \in { Newest, <<0>> \o Newest \o <<Newest[1]>> } }

\* what the server may answer to one page request: status, list, total_count
Answers ==
    [status : {"013", "900"}, list : {<<>>}, total : {0}]
    \cup [status : {"000"}, list : {<<>>}, total : {0}]
    \cup [status : {"000"}, list : Pages, total : {0, MaxFilings}]

InitFiles ==
    { [kind |-> "missing", seen |-> <<>>],
      [kind |-> "list", seen |-> <<(<<1, 1>>)>>],
      [kind |-> "list", seen |-> <<(<<1, 1>>), <<JSON_NESTED, JSON_NESTED>>>>],
      [kind |-> "list", seen |-> OldList(SEEN_MAX)],
      [kind |-> "list", seen |-> <<(<<1, 1>>)>> \o OldList(SEEN_MAX - 1)] }

NoRun == [items |-> <<>>, err |-> "none", sent |-> {}]

NoCall == [fn |-> "none", args |-> <<>>, result |-> <<>>, was |-> <<>>]

\* a process that has not started main
Fresh ==
    /\ st = <<>>
    /\ run = 1
    /\ page = 1
    /\ out = <<>>
    /\ refused = FALSE
    /\ listed = {}
    /\ items = <<>>
    /\ idx = 1
    /\ sent = {}
    /\ fetched = {}
    /\ docfail = {}
    /\ tgfail = {}
    /\ err = "none"
    /\ st0 = <<>>
    /\ file0 = file
    /\ prev = NoRun

Init ==
    /\ prof \in [FilingIds -> Profiles]
    /\ file \in InitFiles
    /\ pc = "start"
    /\ call = NoCall
    /\ Fresh

\* ------------------------------------------------------------------- main
\* st = load_state(); sent = 0
LoadState ==
    /\ pc = "start"
    /\ st' = load_state(file)
    /\ st0' = load_state(file)
    /\ file0' = file
    /\ pc' = "list"
    /\ UNCHANGED <<prof, file, run, page, out, refused, listed, items, idx,
                   sent, fetched, docfail, tgfail, err, prev, call>>

\* pc = int(j.get("page_count") or PAGE_COUNT)
page_count(ans) ==
    IF "page_count" \in DOMAIN ans /\ ans.page_count # 0 THEN ans.page_count ELSE PAGE_COUNT

\* the page loop with an error status ending the loop like "no data"
PageOutcome_lenient(ans, p) ==
    IF ans.status # "000" THEN "break"
    ELSE IF ans.list = <<>> THEN "break"
    ELSE IF ans.total # 0 /\ ans.total <= p * page_count(ans) THEN "last"
    ELSE IF p = MAX_PAGES THEN "last"
    ELSE "next"

\* the page loop over range(1, MAX_PAGES + 2): one page too many
PageOutcome_late(ans, p) ==
    IF ans.status = "013" THEN "break"
    ELSE IF ans.status # "000" THEN "raise"
    ELSE IF ans.list = <<>> THEN "break"
    ELSE IF ans.total # 0 /\ ans.total <= p * page_count(ans) THEN "last"
    ELSE IF p = MAX_PAGES + 1 THEN "last"
    ELSE "next"

\* one turn of the page loop of fetch_list_pages for the answer ans:
\* "raise", "break" (without the page), "last" (with it), "next"
PageOutcome(ans, p) ==
    IF ans.status = "013" THEN "break"
    ELSE IF ans.status # "000" THEN "raise"
    ELSE IF ans.list = <<>> THEN "break"
    ELSE IF ans.total # 0 /\ ans.total <= p * page_count(ans) THEN "last"
    ELSE IF p = MAX_PAGES THEN "last"
    ELSE "next"

\* items = fetch_list_pages(): one page request and what follows it; when the
\* function returns, its result is de-duplicated and sorted; first where the
\* loop goes on: to the next page, out of the function, or not at all
PageTurn(ans) ==
    LET o == PageOutcome(ans, page)
    IN  /\ page' = IF o = "next" THEN page + 1
                   ELSE IF o \in {"break", "last"} THEN 1 ELSE page
        /\ pc' = CASE o = "raise" -> "aborted"
                   [] o = "next" -> "list"
                   [] OTHER -> "loop"

\* the turn with what it does to the records
PageStep(ans) ==
    LET o == PageOutcome(ans, page)
        gathered == IF o \in {"last", "next"} THEN out \o ans.list ELSE out
        returns == o \in {"break", "last"}
    IN  /\ PageTurn(ans)
        /\ refused' = (refused \/ ans.status \notin {"000", "013"})
        /\ out' = IF returns THEN <<>> ELSE gathered
        /\ listed' = IF returns
                     THEN {gathered[k].rcept_no : k \in 1..Len(gathered)} \ {0}
                     ELSE listed
        /\ err' = IF o = "raise" THEN "LIST" ELSE err
        /\ items' = IF returns THEN DedupSort(gathered) ELSE items
        /\ idx' = 1
        /\ UNCHANGED <<prof, file, st, run, sent, fetched, docfail, tgfail,
                       st0, file0, prev>>

\* items = fetch_list_pages() of main
FetchPage ==
    /\ pc = "list"
    /\ \E ans \in Answers : PageStep(ans)
    /\ UNCHANGED call

InLoop == pc = "loop" /\ idx <= Len(items)

it == items[idx]

\* rno = (it.get("rcept_no") or "").strip()
rno == it.rcept_no

\* rpt_nm = (it.get("report_nm") or "").strip()
rpt_nm == Strip(it.report_nm)

\* what fetch_document_text(rno) returns when it returns
doc_text == prof[rno].doc

\* is_seen(st, rno) is called and raises
SeenRaises == rno # 0 /\ is_seen_raises(st)

\* if not rno: continue / if is_seen(st, rno): continue
SkipsItem == rno = 0 \/ (~is_seen_raises(st) /\ is_seen(st, rno))

\* the filing gets past both tests
Unseen == ~SkipsItem /\ ~SeenRaises

\* INC_REPORT.search(rpt_nm)
TitleGate(nm) == Search(INC_REPORT, nm)

\* the filing gets as far as fetch_document_text
ReachesFetch == Unseen /\ market_ok(it.corp_cls) /\ TitleGate(rpt_nm)

\* EXC_3RD without its white-space-tolerant alternative
BodyExcluded_strict(text) == Search({ <<"je", "3", "ja", "baejeong">> }, text)

\* EXC_3RD.search(doc_text)
BodyExcluded(text) == Search(EXC_3RD, text)

SkipItem ==
    /\ InLoop /\ SkipsItem
    /\ idx' = idx + 1
    /\ UNCHANGED <<fixed, file, st, pc, sent, fetched, docfail, tgfail, err>>

\* is_seen raises TypeError (an unhashable entry): nothing in main catches it
SeenLookupFails ==
    /\ InLoop /\ SeenRaises
    /\ pc' = "aborted"
    /\ err' = "SEEN"
    /\ UNCHANGED <<fixed, file, st, idx, sent, fetched, docfail, tgfail>>

\* continue without mark_seen
MarkAndContinue_unmarked ==
    /\ idx' = idx + 1
    /\ UNCHANGED <<fixed, file, st, pc, sent, tgfail, err>>

\* mark_seen(st, rno); continue
MarkAndContinue ==
    /\ st' = mark_seen(st, rno)
    /\ idx' = idx + 1
    /\ UNCHANGED <<fixed, file, pc, sent, tgfail, err>>

\* if not market_ok(corp_cls)
RejectMarket ==
    /\ InLoop /\ Unseen /\ ~market_ok(it.corp_cls)
    /\ MarkAndContinue
    /\ UNCHANGED <<fetched, docfail>>

\* if not INC_REPORT.search(rpt_nm)
RejectTitle ==
    /\ InLoop /\ Unseen /\ market_ok(it.corp_cls) /\ ~TitleGate(rpt_nm)
    /\ MarkAndContinue
    /\ UNCHANGED <<fetched, docfail>>

\* fetch_document_text raises: except Exception
DocFetchFails ==
    /\ InLoop /\ ReachesFetch
    /\ fetched' = fetched \cup {rno}
    /\ docfail' = docfail \cup {rno}
    /\ MarkAndContinue

\* if EXC_3RD.search(doc_text)
RejectThirdParty ==
    /\ InLoop /\ ReachesFetch /\ BodyExcluded(doc_text)
    /\ fetched' = fetched \cup {rno}
    /\ MarkAndContinue
    /\ UNCHANGED docfail

\* if alloc == "N/A"
RejectNoAllocation ==
    /\ InLoop /\ ReachesFetch /\ ~BodyExcluded(doc_text)
    /\ classify_allocation(doc_text) = "N/A"
    /\ fetched' = fetched \cup {rno}
    /\ MarkAndContinue
    /\ UNCHANGED docfail

\* the filing gets as far as tg_send_safe
Accepted ==
    /\ InLoop /\ ReachesFetch /\ ~BodyExcluded(doc_text)
    /\ classify_allocation(doc_text) # "N/A"

\* tg_send_safe returns: mark_seen(st, rno); sent += 1
SendOk ==
    /\ Accepted
    /\ sent' = sent \cup {rno}
    /\ fetched' = fetched \cup {rno}
    /\ st' = mark_seen(st, rno)
    /\ idx' = idx + 1
    /\ UNCHANGED <<fixed, file, pc, docfail, tgfail, err>>

\* tg_send raises (raise_for_status, a timeout): nothing in main catches it
SendFails ==
    /\ Accepted
    /\ tgfail' = tgfail \cup {rno}
    /\ fetched' = fetched \cup {rno}
    /\ pc' = "aborted"
    /\ err' = "TG"
    /\ UNCHANGED <<fixed, file, st, idx, sent, docfail>>

\* save_state(st) after the loop
SaveState ==
    /\ pc = "loop" /\ idx > Len(items)
    /\ st' = save_state(st)
    /\ file' = [kind |-> "list", seen |-> save_state(st)]
    /\ pc' = "done"
    /\ UNCHANGED <<fixed, idx, sent, fetched, docfail, tgfail, err>>

\* the script is run once more, a new process on the same upstream data
NextRun ==
    /\ pc \in {"done", "aborted"}
    /\ run = 1
    /\ run' = 2
    /\ pc' = "start"
    /\ prev' = [items |-> items, err |-> err, sent |-> sent]
    /\ st' = <<>>
    /\ page' = 1
    /\ out' = <<>>
    /\ refused' = FALSE
    /\ listed' = {}
    /\ items' = <<>>
    /\ idx' = 1
    /\ sent' = {}
    /\ fetched' = {}
    /\ docfail' = {}
    /\ tgfail' = {}
    /\ err' = "none"
    /\ st0' = <<>>
    /\ file0' = file
    /\ UNCHANGED <<prof, file, call>>

Next ==
    \/ LoadState
    \/ FetchPage
    \/ SkipItem
    \/ SeenLookupFails
    \/ RejectMarket
    \/ RejectTitle
    \/ DocFetchFails
    \/ RejectThirdParty
    \/ RejectNoAllocation
    \/ SendOk
    \/ SendFails
    \/ SaveState
    \/ NextRun

Spec == Init /\ [][Next]_vars

\* -------------------------------------------------- the dedup store alone
\* how many entries a seen list may gain by mark_seen
MaxMarks == 3

StoreFiles == InitFiles \cup { [kind |-> "list", seen |-> OldList(SEEN_MAX - 1)] }

StoreInit ==
    /\ prof = [id \in FilingIds |-> Filing("Y", T_PAID, D_SH)]
    /\ file \in StoreFiles
    /\ pc = "store"
    /\ call = NoCall
    /\ Fresh

StoreLoad ==
    /\ pc = "store"
    /\ st' = load_state(file)
    /\ UNCHANGED <<fixed, file, pc, idx, sent, fetched, docfail, tgfail, err>>

StoreMark ==
    /\ pc = "store"
    /\ Len(st) <= MaxMarks
    /\ \E id \in FilingIds : st' = mark_seen(st, id)
    /\ UNCHANGED <<fixed, file, pc, idx, sent, fetched, docfail, tgfail, err>>

StoreSave ==
    /\ pc = "store"
    /\ st' = save_state(st)
    /\ file' = [kind |-> "list", seen |-> save_state(st)]
    /\ UNCHANGED <<fixed, pc, idx, sent, fetched, docfail, tgfail, err>>

StoreNext == StoreLoad \/ StoreMark \/ StoreSave

SpecStore == StoreInit /\ [][StoreNext]_vars

\* ------------------------------------------- one run on any state.json
\* what state.json may hold besides what save_state wrote: invalid JSON, a
\* JSON value that is no object, an object without "seen", an object whose
\* "seen" is no list, and a "seen" list with a number in it
StateFiles ==
    InitFiles
    \cup [kind : {"invalid", "not-object", "no-seen", "seen-not-list"}, seen : {<<>>}]
    \cup { [kind |-> "list", seen |-> <<(<<JSON_SCALAR, JSON_SCALAR>>), <<1, 1>>>>] }

StateInit ==
    /\ prof \in [FilingIds -> Profiles]
    /\ file \in StateFiles
    /\ pc = "start"
    /\ call = NoCall
    /\ Fresh

\* main, once
StateNext ==
    \/ LoadState
    \/ FetchPage
    \/ SkipItem
    \/ SeenLookupFails
    \/ RejectMarket
    \/ RejectTitle
    \/ DocFetchFails
    \/ RejectThirdParty
    \/ RejectNoAllocation
    \/ SendOk
    \/ SendFails
    \/ SaveState

SpecState == StateInit /\ [][StateNext]_vars

\* ------------------------------------------------------ risk_score alone
\* fields with nothing that counts: every value is one _is_empty_value drops
F_BARE ==
    (PURPOSE_KEY :> <<"x">>)
    @@ ("cheongyagil" :> <<"N/A">>) @@ ("yejeongga" :> <<"0", "won">>)
    @@ ("hwakjeongil" :> <<" ", "n/a", " ">>)
    @@ ("sinjuinsugwonsangjangyejeonggigan" :> <<" ">>)
    @@ ("sinjuuisangjangyejeongil" :> <<"0", " ", "ju">>)

\* a debt purpose, one date, three keys missing
F_DEBT ==
    (PURPOSE_KEY :> <<"chaemu", "sanghwan">>)
    @@ ("cheongyagil" :> <<"x">>) @@ ("yejeongga" :> <<"0">>)

\* all three purposes and all five dates
F_FULL ==
    (PURPOSE_KEY :> <<"unyeong", "x", "tabeobin", " ", "daechul">>)
    @@ [k \in SCHEDULE_KEYS |-> <<"x">>]

\* raise_krw and mcap_krw: an amount unknown, and amounts on both sides of
\* every threshold of the ratio
Amounts ==
    { <<0, 100>>, <<50, 0>> }
    \cup { <<r, 100>> : r \in {4, 5, 14, 15, 29, 30, 49, 50} }

\* what extract_major_shareholder_participation returns
MajorParts == {"bulcham", "chamyeo", "mihwagin"}

\* the arguments risk_score is called with
RiskArgs ==
    { [ev_type |-> b.ev_type, alloc |-> b.alloc, market |-> b.market,
       fields |-> b.fields, raise_krw |-> am[1], mcap_krw |-> am[2],
       discount_pct |-> b.discount_pct, major_part |-> b.major_part] :
        b \in [ ev_type : {ET_PAID, <<" ">> \o ET_COMBINED \o <<" ">>, ET_BONUS, ET_NONE},
                alloc : {"juju-baejeong", "N/A"},
                market : {<<"kosdaq">>, <<"OTHER">>},
                fields : {F_BARE, F_DEBT, F_FULL},
                discount_pct : {<<>>, <<35>>},
                major_part : MajorParts ],
        am \in Amounts }

\* risk_score(**a)
ScoreOf(a) ==
    risk_score(a.ev_type, a.alloc, a.market, a.fields, a.raise_krw, a.mcap_krw,
               a.discount_pct, a.major_part)

\* a process that calls nothing but the function of call
Idle ==
    /\ prof = [id \in FilingIds |-> Filing("Y", T_PAID, D_SH)]
    /\ file = [kind |-> "missing", seen |-> <<>>]
    /\ Fresh

RiskInit ==
    /\ Idle
    /\ pc = "risk"
    /\ call \in [fn : {"risk_score"}, args : RiskArgs, result : {<<>>}, was : {<<>>}]

\* the call returns
RiskCall ==
    /\ pc = "risk"
    /\ call.result = <<>>
    /\ call' = [call EXCEPT !.result = <<ScoreOf(call.args)>>]
    /\ UNCHANGED <<prof, file, st, run, pc, page, out, refused, listed, items, idx,
                   sent, fetched, docfail, tgfail, err, st0, file0, prev>>

\* the call once more with other amounts, every other argument as it was
RiskOtherRatio ==
    /\ pc = "risk"
    /\ call.result # <<>>
    /\ \E am \in Amounts :
         LET a == [call.args EXCEPT !.raise_krw = am[1], !.mcap_krw = am[2]]
         IN  call' = [fn |-> "risk_score", args |-> a, result |-> <<ScoreOf(a)>>,
                      was |-> <<[args |-> call.args, result |-> call.result[1]]>>]
    /\ UNCHANGED <<prof, file, st, run, pc, page, out, refused, listed, items, idx,
                   sent, fetched, docfail, tgfail, err, st0, file0, prev>>

\* the call once more with another major_part, every other argument as it was
RiskOtherMajor ==
    /\ pc = "risk"
    /\ call.result # <<>>
    /\ \E mp \in MajorParts :
         LET a == [call.args EXCEPT !.major_part = mp]
         IN  call' = [fn |-> "risk_score", args |-> a, result |-> <<ScoreOf(a)>>,
                      was |-> <<[args |-> call.args, result |-> call.result[1]]>>]
    /\ UNCHANGED <<prof, file, st, run, pc, page, out, refused, listed, items, idx,
                   sent, fetched, docfail, tgfail, err, st0, file0, prev>>

RiskNext == RiskCall \/ RiskOtherRatio \/ RiskOtherMajor

SpecRisk == RiskInit /\ [][RiskNext]_vars

\* ------------------------------------------------ fetch_list_pages alone
\* a total_count beyond every page the loop can ask for
BigTotal == MAX_PAGES * PAGE_COUNT + 1

\* what a misbehaving server may answer: pages that never run out, with no
\* total_count (0), one that the pages contradict, or a page_count of 1 or
\* none (0); "no data" with a list all the same
ListAnswers ==
    [status : {"013", "900"}, list : {<<>>}, total : {0}, page_count : {0}]
    \cup [status : {"013"}, list : Pages, total : {0}, page_count : {0}]
    \cup [status : {"000"}, list : {<<>>}, total : {0}, page_count : {0}]
    \cup [status : {"000"}, list : Pages, total : {0, MaxFilings, BigTotal},
          page_count : {0, 1}]

ListInit ==
    /\ Idle
    /\ pc = "list"
    /\ call = [fn |-> "fetch_list_pages", args |-> <<>>, result |-> <<>>, was |-> <<>>]

\* one page request of fetch_list_pages, kept in call.was with its answer;
\* call.result is what the function returns
ListPage ==
    /\ pc = "list"
    /\ \E ans \in ListAnswers :
         /\ PageStep(ans)
         /\ call' = [call EXCEPT
                        !.was = Append(@, [page_no |-> page, ans |-> ans]),
                        !.result = IF pc' = "loop" THEN <<items'>> ELSE <<>>]

ListNext == ListPage

\* the page loop takes its next turn
ListTurn == pc = "list" /\ \E ans \in ListAnswers : PageTurn(ans)

\* the loop of fetch_list_pages goes on while the process runs: every request
\* is answered or times out (timeout=30), and the turn that follows is taken
SpecList == ListInit /\ [][ListNext]_vars /\ WF_<<pc, page>>(ListTurn)

\* ------------------------------------------- classify_event_type alone
\* the longest title, in tokens
MaxTitle == 3

TitleTokens == {"yu", "mu", "sangjeungja", "gyeoljeong", " "}

\* every title of at most MaxTitle tokens
Titles == UNION { [1..n -> TitleTokens] : n \in 0..MaxTitle }

\* the other arguments of risk_score, the same for every title
PlainArgs ==
    [ev_type |-> ET_NONE, alloc |-> "juju-baejeong", market |-> <<"KOSPI">>,
     fields |-> F_BARE, raise_krw |-> 0, mcap_krw |-> 0, discount_pct |-> <<>>,
     major_part |-> "mihwagin"]

TypeInit ==
    /\ Idle
    /\ pc = "type"
    /\ call \in [fn : {"classify_event_type"}, args : {<<t>> : t \in Titles},
                  result : {<<>>}, was : {<<>>}]

\* ev_type = classify_event_type(rpt_nm)
TypeCall ==
    /\ pc = "type"
    /\ call.fn = "classify_event_type" /\ call.result = <<>>
    /\ call' = [call EXCEPT !.result = <<classify_event_type(call.args[1])>>]
    /\ UNCHANGED <<prof, file, st, run, pc, page, out, refused, listed, items, idx,
                   sent, fetched, docfail, tgfail, err, st0, file0, prev>>

\* build_card: risk_score(ev_type, ...) with the type that was returned
TypeRisk ==
    /\ pc = "type"
    /\ call.fn = "classify_event_type" /\ call.result # <<>>
    /\ LET a == [PlainArgs EXCEPT !.ev_type = call.result[1]]
       IN  call' = [fn |-> "risk_score", args |-> a, result |-> <<ScoreOf(a)>>,
                    was |-> <<[args |-> call.args, result |-> call.result[1]]>>]
    /\ UNCHANGED <<prof, file, st, run, pc, page, out, refused, listed, items, idx,
                   sent, fetched, docfail, tgfail, err, st0, file0, prev>>

TypeNext == TypeCall \/ TypeRisk

SpecType == TypeInit /\ [][TypeNext]_vars

\* ------------------------------------------------------------- properties
\* text holds "je 3 ja baejeong" with nothing but white space between its
\* four parts: a match of the third-party-allocation pattern
ThirdPartyIn(text) ==
    \E a, b, c, d \in 1..Len(text) :
        /\ a < b /\ b < c /\ c < d
        /\ text[a] = "je" /\ text[b] = "3" /\ text[c] = "ja" /\ text[d] = "baejeong"
        /\ \A k \in (a + 1)..(d - 1) : k \in {b, c} \/ IsSpace(text[k])

\* the IDs of a seen list, as a set
IdsOf(seen) == UNION { seen[k][1]..seen[k][2] : k \in 1..Len(seen) }

\* how many entries save_state drops from a list
EvictCount(seen) == IF ListLen(seen) > SEEN_MAX THEN ListLen(seen) - SEEN_MAX ELSE 0

\* lst is whole without its first d entries
IsSuffixFrom(lst, whole, d) ==
    /\ ListLen(lst) = ListLen(whole) - d
    /\ \A i \in 1..ListLen(lst) : At(lst, i) = At(whole, d + i)

\* C1: every filing a message was sent for had its document fetched, and the
\* fetched text holds no match of the third-party-allocation pattern.
InvC1 ==
    \A id \in sent :
        id \in fetched /\ id \notin docfail /\ ~ThirdPartyIn(prof[id].doc)

\* a message went out while another filing, whose text matches, was dropped
WitC1 ==
    \E a, b \in FilingIds :
        /\ a \in sent
        /\ b \in fetched \ (sent \cup docfail \cup tgfail)
        /\ ThirdPartyIn(prof[b].doc)
        /\ is_seen(st, b)

\* C2 (as claimed): a filing whose title matches the third-party-allocation
\* pattern never has its document fetched and never has a message sent.
InvC2 ==
    \A id \in FilingIds :
        ThirdPartyIn(Strip(prof[id].report_nm)) => id \notin fetched /\ id \notin sent

\* C3 (as claimed): the second of two runs on the same listing sends nothing.
InvC3 ==
    (run = 2 /\ pc \in {"loop", "done", "aborted"} /\ err # "LIST"
        /\ prev.err # "LIST" /\ items = prev.items)
    => sent = {}

\* C4 (as claimed): when tg_send raises for a filing the run is not aborted
\* and the filing is marked seen.
InvC4 ==
    \A id \in tgfail : pc # "aborted" /\ err = "none" /\ is_seen(st, id)

\* C5: when a run has saved the state, every listed filing with a non-empty
\* ID that was not seen at entry is in the seen list, in memory and on disk.
InvC5 ==
    pc = "done" =>
        \A id \in listed :
            ~is_seen(st0, id) => is_seen(st, id) /\ is_seen(file.seen, id)

\* a run that started at the cap and ended with a failed fetch, a message
\* sent and both filings newly seen
WitC5 ==
    /\ pc = "done"
    /\ ListLen(st0) = SEEN_MAX
    /\ docfail # {} /\ sent # {}
    /\ \A id \in FilingIds : id \in listed /\ ~is_seen(st0, id)

\* C6: once a page request is answered with a status other than 000 and 013
\* the run is aborted with nothing marked seen, nothing fetched or sent and
\* state.json as the run found it.
InvC6 ==
    refused =>
        /\ pc = "aborted" /\ err = "LIST"
        /\ st = st0 /\ file = file0
        /\ sent = {} /\ fetched = {}

\* the bad status came after a page that was gathered, with seen IDs on disk
WitC6 ==
    /\ refused
    /\ page > 1 /\ out # <<>>
    /\ file.kind = "list" /\ file.seen # <<>>

\* C7 (as claimed): a filing that is processed to the end with a fetched,
\* non-empty text that does not match the third-party pattern has a message.
InvC7 ==
    \A id \in fetched \ docfail :
        (is_seen(st, id) /\ prof[id].doc # <<>> /\ ~ThirdPartyIn(prof[id].doc))
        => id \in sent

\* C8 (as claimed): after a document fetch failed the filing has no message
\* and is marked seen, and the run does not end in an error.
InvC8 ==
    docfail # {} =>
        /\ \A id \in docfail : id \notin sent /\ is_seen(st, id)
        /\ pc # "aborted" /\ err = "none"

\* the step appends one entry to st["seen"]
IsAppendStep ==
    /\ ListLen(st') = ListLen(st) + 1
    /\ \A i \in 1..ListLen(st) : At(st', i) = At(st, i)

\* the step reads state.json back
IsLoadStep == file' = file /\ st' = load_state(file)

\* C9: state.json is only ever written with at most SEEN_MAX entries, the
\* most recently inserted ones of the list in memory, in order; the list in
\* memory only grows by one entry at its end or loses its oldest entries in
\* save_state, and only those beyond SEEN_MAX.
ThmC9 ==
    [][ /\ file' # file =>
            /\ file'.kind = "list"
            /\ ListLen(file'.seen) <= SEEN_MAX
            /\ IsSuffixFrom(file'.seen, st, EvictCount(st))
        /\ (st' # st /\ ~IsLoadStep) =>
            \/ IsAppendStep
            \/ EvictCount(st) > 0 /\ IsSuffixFrom(st', st, EvictCount(st))
      ]_vars

\* state.json holds SEEN_MAX entries, the oldest gone, a marked ID the last
WitC9 ==
    /\ pc = "store"
    /\ file.kind = "list"
    /\ ListLen(file.seen) = SEEN_MAX
    /\ ~is_seen(file.seen, Old(1))
    /\ At(file.seen, SEEN_MAX) \in FilingIds

\* the step marks an ID that the list already holds
IsMarkPresentStep ==
    /\ file' = file
    /\ ListLen(st') = ListLen(st) + 1
    /\ is_seen(st, At(st', ListLen(st')))

\* C10 (as claimed): what save_state writes, read back by load_state, has
\* the IDs of the list that was saved, and marking a present ID changes none.
OrigC10 ==
    [][ /\ file' # file => IdsOf(load_state(file')) = IdsOf(st)
        /\ IsMarkPresentStep => IdsOf(st') = IdsOf(st)
      ]_vars

\* C10 (amended): a list of at most SEEN_MAX entries is read back as it was;
\* a longer one as its last SEEN_MAX entries; marking a present ID adds a
\* duplicate entry and leaves the set of IDs as it was.
ThmC10 ==
    [][ /\ file' # file =>
            /\ ListLen(st) <= SEEN_MAX => load_state(file') = st
            /\ IsSuffixFrom(load_state(file'), st, EvictCount(st))
        /\ IsMarkPresentStep =>
            /\ IdsOf(st') = IdsOf(st)
            /\ IsAppendStep
      ]_vars

\* a list with a duplicate at its end, cut to SEEN_MAX and read back
WitC10 ==
    /\ pc = "store"
    /\ file.kind = "list" /\ st = file.seen
    /\ ListLen(st) = SEEN_MAX
    /\ ~is_seen(st, Old(1))
    /\ Len(st) >= 3 /\ st[Len(st)] = st[Len(st) - 1]

\* C11 (as claimed): whatever state.json holds, load_state returns the list
\* of a well-formed file and the empty list otherwise, and no run ends in an
\* exception of is_seen.
InvC11 ==
    /\ pc # "start" =>
            st0 = (IF file0.kind = "list" THEN file0.seen ELSE <<>>)
    /\ err # "SEEN"

\* the threshold bucket of the ratio of raise_krw to mcap_krw: 0 for none,
\* 1 below 5%, 2 from 5%, 3 from 15%, 4 from 30%, 5 from 50%
Bucket(a) ==
    IF a.raise_krw <= 0 \/ a.mcap_krw <= 0 THEN 0
    ELSE IF 20 * a.raise_krw < a.mcap_krw THEN 1
    ELSE IF 20 * a.raise_krw < 3 * a.mcap_krw THEN 2
    ELSE IF 10 * a.raise_krw < 3 * a.mcap_krw THEN 3
    ELSE IF 2 * a.raise_krw < a.mcap_krw THEN 4
    ELSE 5

\* the call before and the call now differ in nothing but the fields in d
SameBut(a, b, d) == \A f \in DOMAIN a : f \in d \/ a[f] = b[f]

\* C12: with every other argument fixed, risk_score for amounts in a higher
\* ratio bucket is never lower, and risk_score with the major shareholder
\* participating is never higher than with the shareholder abstaining; both
\* for the clamped score.
InvC12 ==
    (call.fn = "risk_score" /\ call.was # <<>>) =>
        LET b == call.was[1].args
            a == call.args
            sb == call.was[1].result.score
            sa == call.result[1].score
        IN  /\ sa \in 0..100
            /\ (SameBut(a, b, {"raise_krw", "mcap_krw"}) /\ Bucket(a) >= Bucket(b))
                    => sa >= sb
            /\ (SameBut(a, b, {"major_part"}) /\ a.major_part = "chamyeo"
                    /\ b.major_part = "bulcham") => sa <= sb
            /\ (SameBut(a, b, {"major_part"}) /\ a.major_part = "bulcham"
                    /\ b.major_part = "chamyeo") => sa >= sb

\* the amounts went from no ratio to the top bucket and the score to the clamp
WitC12 ==
    /\ call.fn = "risk_score" /\ call.was # <<>>
    /\ Bucket(call.was[1].args) = 0 /\ Bucket(call.args) = 5
    /\ call.was[1].result.score < 100
    /\ call.result[1].score = 100

\* the non-empty IDs of the records in the pages that were gathered
GatheredIds(reqs) ==
    UNION { { reqs[k].ans.list[n].rcept_no : n \in 1..Len(reqs[k].ans.list) } :
              k \in { j \in 1..Len(reqs) : reqs[j].ans.status = "000" } } \ {0}

\* lst holds the IDs in ids, each once, and no record without an ID
HoldsOnce(lst, ids) ==
    /\ { lst[k].rcept_no : k \in 1..Len(lst) } = ids
    /\ \A j, k \in 1..Len(lst) : lst[j].rcept_no = lst[k].rcept_no => j = k

\* every request so far was answered with status 000 and a page of records
AllFull(reqs) ==
    \A k \in 1..Len(reqs) : reqs[k].ans.status = "000" /\ reqs[k].ans.list # <<>>

\* the requests of fetch_list_pages are for the pages 1, 2, .. in this order
\* and at most MAX_PAGES; when it returns, it returns the gathered records,
\* each ID once; after MAX_PAGES pages of records it has returned
ListSafe ==
    call.fn = "fetch_list_pages" =>
        /\ \A k \in 1..Len(call.was) : call.was[k].page_no = k
        /\ Len(call.was) <= MAX_PAGES
        /\ pc = "loop" =>
              /\ call.result = <<items>>
              /\ HoldsOnce(items, GatheredIds(call.was))
        /\ (Len(call.was) = MAX_PAGES /\ AllFull(call.was)) =>
              pc = "loop" /\ err = "none"

\* C13: fetch_list_pages asks for the pages 1, 2, .. in order, makes at most
\* MAX_PAGES requests whatever the answers are, returns the gathered records
\* de-duplicated by filing ID when it stops at the cap, and always ends.
ThmC13 == []ListSafe /\ <>(pc # "list")

\* the cap was reached on pages that never ran out, with a total_count that
\* asks for more, and the records came back each once
WitC13 ==
    /\ call.fn = "fetch_list_pages"
    /\ Len(call.was) = MAX_PAGES /\ AllFull(call.was)
    /\ call.was[MAX_PAGES].ans.total = BigTotal
    /\ pc = "loop"
    /\ Len(items) = MaxFilings

\* the title holds the combined keyword "yu-mu-sangjeungja"
HasCombined(title) ==
    \E i \in 1..(Len(title) - 2) : SubSeq(title, i, i + 2) = <<"yu", "mu", "sangjeungja">>

\* the score of the plain arguments with the event type et
PlainScore(et) == ScoreOf([PlainArgs EXCEPT !.ev_type = et]).score

\* C14 (as claimed): for a title that holds the combined keyword
\* classify_event_type returns the combined type, and risk_score then adds
\* the combined weight, a score between those of the bonus and the paid-in type.
InvC14 ==
    /\ (call.fn = "classify_event_type" /\ call.result # <<>>
            /\ HasCombined(call.args[1]))
        => call.result[1] = ET_COMBINED
    /\ (call.fn = "risk_score" /\ call.was # <<>> /\ pc = "type"
            /\ HasCombined(call.was[1].args[1]))
        => /\ call.result[1].score = PlainScore(ET_COMBINED)
           /\ call.result[1].score > PlainScore(ET_BONUS)
           /\ call.result[1].score < PlainScore(ET_PAID)

====
